---- MODULE Spec2Model ----
(***************************************************************************)
(* tinyLedger: an in-memory ledger (app/tinyLedger.py, LedgerService)      *)
(* fronted by a thin HTTP handler (app/handler.py, LedgerHandler).         *)
(*                                                                         *)
(* Amounts are Python floats in the source; the model draws them from a   *)
(* small set of integers (finite values that floats represent exactly),   *)
(* so arithmetic is exact.  NaN, infinities and rounding are outside the   *)
(* model.                                                                  *)
(***************************************************************************)
EXTENDS Integers, Sequences, FiniteSets, TLC

\* ------------------------------------------------------------------ bounds

\* The model stops recording once this many transactions are stored in total.
MaxTxns == 3

\* The interleaved model stops once this many calls have begun.
MaxCalls == 3

\* ------------------------------------------------------------- input sets

Accounts == {"acc1", "acc2"}

\* Requested amounts: negative, zero and positive ones.
Amounts == {-1, 0, 1, 2}

\* hash(account_id) is fixed for the life of the process and otherwise
\* arbitrary; two account ids may collide.
HashValues == {7, 8}

None == "None"

Descriptions == {None}

\* Worker threads serving create_transaction requests at the same time.
Threads == {"t1", "t2"}

\* time() readings
Timestamps == {1000}

\* ----------------------------------------------------------- schemas.py

DEPOSIT == "deposit"

WITHDRAWAL == "withdrawal"

TransactionType == {DEPOSIT, WITHDRAWAL}

Transaction(id, account_id, type, amount, description, timestamp) ==
    [id |-> id, account_id |-> account_id, type |-> type, amount |-> amount,
     description |-> description, timestamp |-> timestamp]

\* ----------------------------------------------------------- exceptions

NoException == [exc |-> "None", msg |-> ""]

AmountNotPositive == [exc |-> "ValueError", msg |-> "Transaction amount must be positive"]

AccountDoesNotExist == [exc |-> "ValueError", msg |-> "Account does not exist."]

InsufficientFundsError == [exc |-> "InsufficientFundsError", msg |-> "Insufficient funds for withdrawal"]

\* ------------------------------------------------------------ HTTP status

HTTP_200_OK == 200

HTTP_201_CREATED == 201

HTTP_400_BAD_REQUEST == 400

HTTP_404_NOT_FOUND == 404

\* ------------------------------------------------------------------ state

VARIABLES
    transactions,   \* LedgerService._transactions: account id -> list of Transaction
    balances,       \* LedgerService._balances: account id -> balance
    hashOf,         \* the process's hash() on account ids
    call,           \* the latest call: who was called, with what
    result,         \* what that call raised or returned
    threads,        \* the process_transaction calls in progress, one per worker thread
    started         \* how many interleaved calls have begun

vars == <<transactions, balances, hashOf, call, result, threads, started>>

\* The two maps of a LedgerService, as one value.
Store == [transactions |-> transactions, balances |-> balances]

\* ------------------------------------------------- LedgerService helpers

\* self._transactions.get(account_id, [])
GetLog(txs, account_id) ==
    IF account_id \in DOMAIN txs THEN txs[account_id] ELSE <<>>

\* The number of transactions in the logs of the accounts in S.
RECURSIVE SumLens(_, _)
SumLens(txs, S) ==
    IF S = {} THEN 0
    ELSE LET a == CHOOSE x \in S : TRUE
         IN  Len(txs[a]) + SumLens(txs, S \ {a})

\* Mutant: the sequence number counts the transactions of every account.
generate_transaction_id_globalCounter(txs, account_id) ==
    <<hashOf[account_id], SumLens(txs, DOMAIN txs) + 1>>

\* The string f"{hash(account_id)}_{transaction_number}" is modelled by the
\* pair of its two numbers: the formatting is injective on pairs of integers.
generate_transaction_id(txs, account_id) ==
    LET transaction_number == Len(GetLog(txs, account_id)) + 1
    IN  <<hashOf[account_id], transaction_number>>

parse_transaction_request(txs, account_id, transaction_type, amount, transaction_timestamp, description) ==
    Transaction(generate_transaction_id(txs, account_id), account_id,
                transaction_type, amount, description, transaction_timestamp)

\* Mutant: zero passes the amount check.
validate_transaction_amount_zeroAllowed(amount) ==
    IF amount < 0 THEN AmountNotPositive ELSE NoException

\* The exception raised, or NoException.
validate_transaction_amount(amount) ==
    IF amount <= 0 THEN AmountNotPositive ELSE NoException

\* Mutant: the funds check is missing.
validate_withdrawal_is_possible_noFundsCheck(bals, transaction) ==
    IF transaction.account_id \notin DOMAIN bals
    THEN AccountDoesNotExist
    ELSE NoException

\* Mutant: the funds check is off by one.
validate_withdrawal_is_possible_offByOne(bals, transaction) ==
    IF transaction.account_id \notin DOMAIN bals
    THEN AccountDoesNotExist
    ELSE IF bals[transaction.account_id] + 1 < transaction.amount
         THEN InsufficientFundsError
         ELSE NoException

\* Mutant: a missing account is read as a balance of 0
\* (self._balances.get(account_id, 0.0)).
validate_withdrawal_is_possible_missingIsZero(bals, transaction) ==
    IF (IF transaction.account_id \in DOMAIN bals
        THEN bals[transaction.account_id] ELSE 0) < transaction.amount
    THEN InsufficientFundsError
    ELSE NoException

\* Mutant: a withdrawal of the whole balance is refused.
validate_withdrawal_is_possible_fullBalanceRefused(bals, transaction) ==
    IF transaction.account_id \notin DOMAIN bals
    THEN AccountDoesNotExist
    ELSE IF bals[transaction.account_id] <= transaction.amount
         THEN InsufficientFundsError
         ELSE NoException

\* The exception raised, or NoException.
validate_withdrawal_is_possible(bals, transaction) ==
    IF transaction.account_id \notin DOMAIN bals
    THEN AccountDoesNotExist
    ELSE IF bals[transaction.account_id] < transaction.amount
         THEN InsufficientFundsError
         ELSE NoException

\* d[key] = value when key is absent from d; d otherwise.
SetDefault(d, key, value) ==
    IF key \in DOMAIN d
    THEN d
    ELSE [k \in DOMAIN d \cup {key} |-> IF k = key THEN value ELSE d[k]]

setup_account_if_not_exists(s, account_id) ==
    [transactions |-> SetDefault(s.transactions, account_id, <<>>),
     balances     |-> SetDefault(s.balances, account_id, 0)]

\* Mutant: a withdrawal is added to the balance.
record_transaction_withdrawalAdds(s, transaction) ==
    LET a == transaction.account_id
    IN  [transactions |-> [s.transactions EXCEPT ![a] = Append(@, transaction)],
         balances |-> [s.balances EXCEPT ![a] = @ + transaction.amount]]

\* Mutant: every account's log is the same list object, so an append shows
\* in all of them.
record_transaction_sharedLog(s, transaction) ==
    LET a == transaction.account_id
    IN  [transactions |-> [b \in DOMAIN s.transactions |->
                               Append(s.transactions[b], transaction)],
         balances |->
            IF transaction.type = DEPOSIT
            THEN [s.balances EXCEPT ![a] = @ + transaction.amount]
            ELSE [s.balances EXCEPT ![a] = @ - transaction.amount]]

\* Mutant: the transaction is inserted at the front of the log.
record_transaction_prepend(s, transaction) ==
    LET a == transaction.account_id
    IN  [transactions |-> [s.transactions EXCEPT ![a] = <<transaction>> \o @],
         balances |->
            IF transaction.type = DEPOSIT
            THEN [s.balances EXCEPT ![a] = @ + transaction.amount]
            ELSE [s.balances EXCEPT ![a] = @ - transaction.amount]]

\* Both branches of the type test; Transaction admits no third type.
record_transaction(s, transaction) ==
    LET a == transaction.account_id
        txs == [s.transactions EXCEPT ![a] = Append(@, transaction)]
    IN  [transactions |-> txs,
         balances |->
            IF transaction.type = DEPOSIT
            THEN [s.balances EXCEPT ![a] = @ + transaction.amount]
            ELSE [s.balances EXCEPT ![a] = @ - transaction.amount]]

\* A call's effect: what it raised, what it returned and the store after it.
Raise(s, e) == [exc |-> e, store |-> s]

Return(s) == [exc |-> NoException, store |-> s]

\* Mutant: the account is set up before the request is validated.
process_transaction_setupFirst(s, account_id, transaction_type, amount, description, current_timestamp) ==
    LET transaction == parse_transaction_request(s.transactions, account_id,
                           transaction_type, amount, current_timestamp, description)
        s1 == setup_account_if_not_exists(s, transaction.account_id)
        amountError == validate_transaction_amount(transaction.amount)
        withdrawalError ==
            IF transaction.type = WITHDRAWAL
            THEN validate_withdrawal_is_possible(s1.balances, transaction)
            ELSE NoException
    IN  IF amountError # NoException THEN Raise(s1, amountError)
        ELSE IF withdrawalError # NoException THEN Raise(s1, withdrawalError)
        ELSE Return(record_transaction(s1, transaction))

\* Mutant: the withdrawal is validated before the amount.
process_transaction_withdrawalFirst(s, account_id, transaction_type, amount, description, current_timestamp) ==
    LET transaction == parse_transaction_request(s.transactions, account_id,
                           transaction_type, amount, current_timestamp, description)
        amountError == validate_transaction_amount(transaction.amount)
        withdrawalError ==
            IF transaction.type = WITHDRAWAL
            THEN validate_withdrawal_is_possible(s.balances, transaction)
            ELSE NoException
    IN  IF withdrawalError # NoException THEN Raise(s, withdrawalError)
        ELSE IF amountError # NoException THEN Raise(s, amountError)
        ELSE Return(record_transaction(
                        setup_account_if_not_exists(s, transaction.account_id),
                        transaction))

\* Mutant: the balance map hands out a default on a miss (a defaultdict), so
\* validating a withdrawal on an unknown account leaves it a balance of 0.
process_transaction_checkCreatesBalance(s, account_id, transaction_type, amount, description, current_timestamp) ==
    LET transaction == parse_transaction_request(s.transactions, account_id,
                           transaction_type, amount, current_timestamp, description)
        amountError == validate_transaction_amount(transaction.amount)
        s1 == [s EXCEPT !.balances = SetDefault(@, account_id, 0)]
        withdrawalError ==
            IF transaction.type = WITHDRAWAL
            THEN validate_withdrawal_is_possible(s1.balances, transaction)
            ELSE NoException
    IN  IF amountError # NoException THEN Raise(s, amountError)
        ELSE IF withdrawalError # NoException THEN Raise(s1, withdrawalError)
        ELSE Return(record_transaction(
                        setup_account_if_not_exists(s, transaction.account_id),
                        transaction))

\* LedgerService.process_transaction on store s.
process_transaction(s, account_id, transaction_type, amount, description, current_timestamp) ==
    LET transaction == parse_transaction_request(s.transactions, account_id,
                           transaction_type, amount, current_timestamp, description)
        amountError == validate_transaction_amount(transaction.amount)
        withdrawalError ==
            IF transaction.type = WITHDRAWAL
            THEN validate_withdrawal_is_possible(s.balances, transaction)
            ELSE NoException
    IN  IF amountError # NoException THEN Raise(s, amountError)
        ELSE IF withdrawalError # NoException THEN Raise(s, withdrawalError)
        ELSE Return(record_transaction(
                        setup_account_if_not_exists(s, transaction.account_id),
                        transaction))

\* LedgerService.get_balance: the exception raised, or NoException.
get_balance(bals, account_id) ==
    IF account_id \notin DOMAIN bals THEN AccountDoesNotExist ELSE NoException

\* LedgerService.list_transactions: the exception raised, or NoException.
list_transactions(txs, account_id) ==
    IF account_id \notin DOMAIN txs THEN AccountDoesNotExist ELSE NoException

\* ------------------------------------------------------------ bookkeeping

\* Transactions stored so far, over all accounts.
TotalTxns == SumLens(transactions, DOMAIN transactions)

NoCall == [via |-> "none", op |-> "none", account_id |-> None,
           type |-> None, amount |-> 0]

TheCall(via, op, account_id, type, amount) ==
    [via |-> via, op |-> op, account_id |-> account_id, type |-> type, amount |-> amount]

\* exc: the exception the service raised; status: the HTTP status (0 outside
\* HTTP); balance, log: the value returned by a query that succeeded.
TheResult(exc, status, balance, log) ==
    [exc |-> exc, status |-> status, balance |-> balance, log |-> log]

\* ---------------------------------------------------------------- actions

\* A thread outside process_transaction.  txn: the parsed transaction; seen:
\* the balance the funds check read; bal: the balance the update read.  A
\* thread whose call returned stays "done", with txn and seen, until its next
\* call; one whose call raised is idle again.
Idle == [pc |-> "idle",
         txn |-> Transaction(<<0, 0>>, None, None, 0, None, 0),
         seen |-> 0, bal |-> 0]

Init ==
    /\ transactions = <<>>
    /\ balances = <<>>
    /\ hashOf \in [Accounts -> HashValues]
    /\ call = NoCall
    /\ result = TheResult(NoException, 0, 0, <<>>)
    /\ threads = [t \in Threads |-> Idle]
    /\ started = 0

\* A direct call of LedgerService.process_transaction.
ProcessTransaction ==
    \E account_id \in Accounts, type \in TransactionType, amount \in Amounts,
       description \in Descriptions, ts \in Timestamps :
        LET r == process_transaction(Store, account_id, type, amount, description, ts)
        IN  /\ r.exc # NoException \/ TotalTxns < MaxTxns
            /\ transactions' = r.store.transactions
            /\ balances' = r.store.balances
            /\ call' = TheCall("service", "process_transaction", account_id, type, amount)
            /\ result' = TheResult(r.exc, 0, 0, <<>>)
            /\ UNCHANGED <<hashOf, threads, started>>

\* Mutant: the balance map hands out a default on a miss (a defaultdict), so
\* reading an unknown account creates it.
GetBalance_createsAccount ==
    \E account_id \in Accounts :
        /\ call' = TheCall("service", "get_balance", account_id, None, 0)
        /\ balances' = SetDefault(balances, account_id, 0)
        /\ result' = TheResult(NoException, 0, balances'[account_id], <<>>)
        /\ UNCHANGED <<transactions, hashOf, threads, started>>

\* A direct call of LedgerService.get_balance.
GetBalance ==
    \E account_id \in Accounts :
        LET e == get_balance(balances, account_id)
        IN  /\ call' = TheCall("service", "get_balance", account_id, None, 0)
            /\ result' = TheResult(e, 0,
                            IF e = NoException THEN balances[account_id] ELSE 0, <<>>)
            /\ UNCHANGED <<transactions, balances, hashOf, threads, started>>

\* A direct call of LedgerService.list_transactions.
ListTransactions ==
    \E account_id \in Accounts :
        LET e == list_transactions(transactions, account_id)
        IN  /\ call' = TheCall("service", "list_transactions", account_id, None, 0)
            /\ result' = TheResult(e, 0, 0,
                            IF e = NoException THEN transactions[account_id] ELSE <<>>)
            /\ UNCHANGED <<transactions, balances, hashOf, threads, started>>

\* handler.py create_transaction: the except clauses, in order.
create_transaction_status(exc) ==
    IF exc = NoException THEN HTTP_201_CREATED
    ELSE IF exc.exc = "ValueError" THEN HTTP_404_NOT_FOUND
    ELSE HTTP_400_BAD_REQUEST

\* handler.py get_balance and list_transactions.
query_status(exc) ==
    IF exc = NoException THEN HTTP_200_OK ELSE HTTP_404_NOT_FOUND

\* POST /transactions/{account_id}
CreateTransaction ==
    \E account_id \in Accounts, type \in TransactionType, amount \in Amounts,
       description \in Descriptions, ts \in Timestamps :
        LET r == process_transaction(Store, account_id, type, amount, description, ts)
        IN  /\ r.exc # NoException \/ TotalTxns < MaxTxns
            /\ transactions' = r.store.transactions
            /\ balances' = r.store.balances
            /\ call' = TheCall("http", "process_transaction", account_id, type, amount)
            /\ result' = TheResult(r.exc, create_transaction_status(r.exc), 0, <<>>)
            /\ UNCHANGED <<hashOf, threads, started>>

\* GET /balance/{account_id}
HttpGetBalance ==
    \E account_id \in Accounts :
        LET e == get_balance(balances, account_id)
        IN  /\ call' = TheCall("http", "get_balance", account_id, None, 0)
            /\ result' = TheResult(e, query_status(e),
                            IF e = NoException THEN balances[account_id] ELSE 0, <<>>)
            /\ UNCHANGED <<transactions, balances, hashOf, threads, started>>

\* GET /transactions/{account_id}
HttpListTransactions ==
    \E account_id \in Accounts :
        LET e == list_transactions(transactions, account_id)
        IN  /\ call' = TheCall("http", "list_transactions", account_id, None, 0)
            /\ result' = TheResult(e, query_status(e), 0,
                            IF e = NoException THEN transactions[account_id] ELSE <<>>)
            /\ UNCHANGED <<transactions, balances, hashOf, threads, started>>

Next ==
    \/ ProcessTransaction
    \/ GetBalance
    \/ ListTransactions
    \/ CreateTransaction
    \/ HttpGetBalance
    \/ HttpListTransactions

\* Calls executed one at a time.
Spec == Init /\ [][Next]_vars

\* ------------------------------------------- interleaved process_transaction
\* The steps of process_transaction as separate actions, each holding one
\* access to the shared maps, so that the calls of two threads interleave.
\* Nothing in LedgerService or LedgerHandler takes a lock.

\* Lines 40-43: the request is parsed; the id is computed from the log's
\* length as it is now.
Parse(t) ==
    /\ threads[t].pc \in {"idle", "done"}
    /\ started < MaxCalls
    /\ started' = started + 1
    /\ \E account_id \in Accounts, type \in TransactionType, amount \in Amounts,
          description \in Descriptions, ts \in Timestamps :
         threads' = [threads EXCEPT ![t] =
            [Idle EXCEPT !.pc = "validate",
                         !.txn = parse_transaction_request(transactions, account_id,
                                     type, amount, ts, description)]]
    /\ UNCHANGED <<transactions, balances, hashOf, call, result>>

\* Lines 46-48: the amount check, then for a withdrawal the account and funds
\* check against the balance as it is now.
Validate(t) ==
    /\ threads[t].pc = "validate"
    /\ LET transaction == threads[t].txn
           amountError == validate_transaction_amount(transaction.amount)
           withdrawalError ==
               IF transaction.type = WITHDRAWAL
               THEN validate_withdrawal_is_possible(balances, transaction)
               ELSE NoException
           e == IF amountError # NoException THEN amountError ELSE withdrawalError
       IN  threads' = [threads EXCEPT ![t] =
              IF e # NoException
              THEN Idle
              ELSE [@ EXCEPT !.pc = "setup_log",
                             !.seen = IF transaction.type = WITHDRAWAL
                                      THEN balances[transaction.account_id] ELSE 0]]
    /\ UNCHANGED <<transactions, balances, hashOf, call, result, started>>

\* Line 86: is the account in _transactions?
SetupLogTest(t) ==
    /\ threads[t].pc = "setup_log"
    /\ threads' = [threads EXCEPT ![t].pc =
          IF threads[t].txn.account_id \in DOMAIN transactions
          THEN "setup_balance" ELSE "set_log"]
    /\ UNCHANGED <<transactions, balances, hashOf, call, result, started>>

\* Line 87: self._transactions[account_id] = []
SetLog(t) ==
    /\ threads[t].pc = "set_log"
    /\ LET a == threads[t].txn.account_id
       IN  transactions' = [k \in DOMAIN transactions \cup {a} |->
                               IF k = a THEN <<>> ELSE transactions[k]]
    /\ threads' = [threads EXCEPT ![t].pc = "setup_balance"]
    /\ UNCHANGED <<balances, hashOf, call, result, started>>

\* Line 89: is the account in _balances?
SetupBalanceTest(t) ==
    /\ threads[t].pc = "setup_balance"
    /\ threads' = [threads EXCEPT ![t].pc =
          IF threads[t].txn.account_id \in DOMAIN balances
          THEN "append" ELSE "set_balance"]
    /\ UNCHANGED <<transactions, balances, hashOf, call, result, started>>

\* Line 90: self._balances[account_id] = 0.0
SetBalance(t) ==
    /\ threads[t].pc = "set_balance"
    /\ LET a == threads[t].txn.account_id
       IN  balances' = [k \in DOMAIN balances \cup {a} |->
                           IF k = a THEN 0 ELSE balances[k]]
    /\ threads' = [threads EXCEPT ![t].pc = "append"]
    /\ UNCHANGED <<transactions, hashOf, call, result, started>>

\* Line 93: the parsed transaction is appended to the account's list.
AppendTransaction(t) ==
    /\ threads[t].pc = "append"
    /\ transactions' = [transactions EXCEPT ![threads[t].txn.account_id] =
                           Append(@, threads[t].txn)]
    /\ threads' = [threads EXCEPT ![t].pc = "read_balance"]
    /\ UNCHANGED <<balances, hashOf, call, result, started>>

\* Lines 96, 98: the read of the augmented assignment.
ReadBalance(t) ==
    /\ threads[t].pc = "read_balance"
    /\ threads' = [threads EXCEPT ![t].pc = "write_balance",
                                  ![t].bal = balances[threads[t].txn.account_id]]
    /\ UNCHANGED <<transactions, balances, hashOf, call, result, started>>

\* Lines 96, 98: the store of the augmented assignment.
WriteBalance(t) ==
    /\ threads[t].pc = "write_balance"
    /\ balances' = [balances EXCEPT ![threads[t].txn.account_id] =
                       IF threads[t].txn.type = DEPOSIT
                       THEN threads[t].bal + threads[t].txn.amount
                       ELSE threads[t].bal - threads[t].txn.amount]
    /\ threads' = [threads EXCEPT ![t].pc = "done", ![t].bal = 0]
    /\ UNCHANGED <<transactions, hashOf, call, result, started>>

NextInterleaved ==
    \E t \in Threads :
        \/ Parse(t)
        \/ Validate(t)
        \/ SetupLogTest(t)
        \/ SetLog(t)
        \/ SetupBalanceTest(t)
        \/ SetBalance(t)
        \/ AppendTransaction(t)
        \/ ReadBalance(t)
        \/ WriteBalance(t)

\* Renaming the hash values maps every hash function to one that gives a
\* chosen account a chosen value, and no action reads a hash value other than
\* to copy it; so those functions stand for all of them.
InitInterleaved ==
    /\ Init
    /\ hashOf[CHOOSE a \in Accounts : TRUE] = CHOOSE h \in HashValues : TRUE

\* Calls served by concurrent threads, without a lock.
SpecInterleaved == InitInterleaved /\ [][NextInterleaved]_vars

\* ------------------------------------------------------- claim vocabulary

\* The sum of the amounts of the entries of the given type in a log.
RECURSIVE SumOfType(_, _)
SumOfType(log, type) ==
    IF log = <<>> THEN 0
    ELSE (IF Head(log).type = type THEN Head(log).amount ELSE 0)
         + SumOfType(Tail(log), type)

IsPrefix(s, t) ==
    /\ Len(s) <= Len(t)
    /\ \A i \in 1..Len(s) : s[i] = t[i]

\* The step being taken is a process_transaction call (direct or through HTTP).
IsProcessTransaction(c) == c.op = "process_transaction"

Succeeded(r) == r.exc = NoException

\* ------------------------------------------------------------------ C1

\* C1: in every reachable state, every existing account's balance equals the
\* sum of the Deposit amounts in its log minus the sum of the Withdrawal
\* amounts in its log.
C1_BalanceIsNetSum ==
    \A a \in DOMAIN balances :
        balances[a] = SumOfType(GetLog(transactions, a), DEPOSIT)
                      - SumOfType(GetLog(transactions, a), WITHDRAWAL)

\* An account holding deposits and a withdrawal, seen right after a call failed.
C1_Witness ==
    \E a \in DOMAIN balances :
        /\ Len(transactions[a]) = 3
        /\ SumOfType(transactions[a], WITHDRAWAL) > 0
        /\ SumOfType(transactions[a], DEPOSIT) > SumOfType(transactions[a], WITHDRAWAL)
        /\ IsProcessTransaction(call) /\ ~Succeeded(result)

\* ------------------------------------------------------------------ C2

\* C2: with calls executed one at a time, every existing account's balance
\* is >= 0 in every reachable state.
C2_BalanceNonNegative ==
    \A a \in DOMAIN balances : balances[a] >= 0

\* A withdrawal was recorded and emptied the account.
C2_Witness ==
    /\ IsProcessTransaction(call) /\ call.type = WITHDRAWAL /\ Succeeded(result)
    /\ balances[call.account_id] = 0

\* ------------------------------------------------------------------ C3

\* C3: a Withdrawal whose amount exceeds the account's current balance fails
\* with InsufficientFundsError and leaves balance and log unchanged.
C3_OverdraftRejected ==
    [][ ( /\ IsProcessTransaction(call')
          /\ call'.type = WITHDRAWAL
          /\ call'.account_id \in DOMAIN balances
          /\ call'.amount > balances[call'.account_id] )
        => ( /\ result'.exc = InsufficientFundsError
             /\ balances' = balances
             /\ transactions' = transactions ) ]_vars

\* An overdraft by exactly one unit on a funded account was refused.
C3_Witness ==
    /\ IsProcessTransaction(call) /\ call.type = WITHDRAWAL
    /\ call.account_id \in DOMAIN balances
    /\ balances[call.account_id] > 0
    /\ call.amount = balances[call.account_id] + 1
    /\ result.exc = InsufficientFundsError

\* ------------------------------------------------------------------ C4

\* C4: process_transaction with an amount <= 0 fails with the "amount must be
\* positive" error whatever the type, the account and its balance; a
\* non-positive Withdrawal on a missing account reports the amount error.
C4_NonPositiveAmountRejected ==
    [][ (IsProcessTransaction(call') /\ call'.amount <= 0)
        => result'.exc = AmountNotPositive ]_vars

\* A zero Withdrawal on a missing account got the amount error.
C4_Witness ==
    /\ IsProcessTransaction(call) /\ call.type = WITHDRAWAL
    /\ call.amount = 0
    /\ call.account_id \notin DOMAIN balances
    /\ result.exc = AmountNotPositive
    /\ DOMAIN balances # {}

\* ------------------------------------------------------------------ C5

\* The account has had no transaction processed.
Unused(a) == GetLog(transactions, a) = <<>>

\* C5 as stated: every operation on an account with zero prior transactions
\* fails with the account-does-not-exist error, except a Deposit, which
\* succeeds and creates the account.
C5_AsStated ==
    [][ Unused(call'.account_id)
        => IF IsProcessTransaction(call') /\ call'.type = DEPOSIT
           THEN /\ Succeeded(result')
                /\ call'.account_id \in DOMAIN transactions'
                /\ call'.account_id \in DOMAIN balances'
           ELSE result'.exc = AccountDoesNotExist ]_vars

\* C5 amended: on an account with zero prior transactions, get_balance,
\* list_transactions and a Withdrawal of a positive amount fail with the
\* account-does-not-exist error, and a Deposit of a positive amount succeeds
\* and creates the account; a process_transaction with a non-positive amount
\* fails with the amount error instead, for either type.
C5_UnusedAccount ==
    [][ Unused(call'.account_id)
        => IF IsProcessTransaction(call') /\ call'.amount <= 0
           THEN result'.exc = AmountNotPositive
           ELSE IF IsProcessTransaction(call') /\ call'.type = DEPOSIT
           THEN /\ Succeeded(result')
                /\ call'.account_id \in DOMAIN transactions'
                /\ call'.account_id \in DOMAIN balances'
           ELSE result'.exc = AccountDoesNotExist ]_vars

\* A positive Withdrawal on an unused account was refused as unknown, while
\* another account exists.
C5_Witness ==
    /\ IsProcessTransaction(call) /\ call.type = WITHDRAWAL /\ call.amount > 0
    /\ Unused(call.account_id)
    /\ result.exc = AccountDoesNotExist
    /\ DOMAIN transactions # {}

\* ------------------------------------------------------------------ C6

\* C6: a process_transaction call applies fully (one entry appended to the
\* target's log, its balance moved by the amount) or not at all: when it
\* raises, the accounts, balances and logs are what they were.
C6_AllOrNothing ==
    [][ IsProcessTransaction(call')
        => IF Succeeded(result')
           THEN LET a == call'.account_id
                    old == GetLog(transactions, a)
                    oldBalance == IF a \in DOMAIN balances THEN balances[a] ELSE 0
                IN  /\ a \in DOMAIN transactions' /\ a \in DOMAIN balances'
                    /\ Len(transactions'[a]) = Len(old) + 1
                    /\ SubSeq(transactions'[a], 1, Len(old)) = old
                    /\ transactions'[a][Len(old) + 1].amount = call'.amount
                    /\ transactions'[a][Len(old) + 1].type = call'.type
                    /\ balances'[a] = IF call'.type = DEPOSIT
                                      THEN oldBalance + call'.amount
                                      ELSE oldBalance - call'.amount
           ELSE /\ transactions' = transactions
                /\ balances' = balances ]_vars

\* A call on an account that does not exist failed and did not create it.
C6_Witness ==
    /\ IsProcessTransaction(call) /\ ~Succeeded(result)
    /\ call.account_id \notin DOMAIN transactions
    /\ call.account_id \notin DOMAIN balances
    /\ DOMAIN transactions # {}

\* ------------------------------------------------------------------ C7

\* C7: a successful process_transaction on an account leaves every other
\* account's existence, balance and log as they were.
C7_OtherAccountsUntouched ==
    [][ (IsProcessTransaction(call') /\ Succeeded(result'))
        => \A b \in Accounts \ {call'.account_id} :
             /\ (b \in DOMAIN transactions') = (b \in DOMAIN transactions)
             /\ (b \in DOMAIN balances') = (b \in DOMAIN balances)
             /\ b \in DOMAIN transactions => transactions'[b] = transactions[b]
             /\ b \in DOMAIN balances => balances'[b] = balances[b] ]_vars

\* A transaction was recorded on one account while another one holds a log.
C7_Witness ==
    /\ IsProcessTransaction(call) /\ Succeeded(result)
    /\ \E b \in DOMAIN transactions \ {call.account_id} : Len(transactions[b]) >= 1
    /\ Len(transactions[call.account_id]) >= 2

\* ------------------------------------------------------------------ C8

\* C8: the k-th transaction of an account's log has the id made of the
\* account's prefix and k, counting from 1; so the sequence numbers of a log
\* are unique, increasing and without gaps, whatever failed on the account
\* and whatever was recorded on other accounts.
C8_SequentialIds ==
    \A a \in DOMAIN transactions :
        /\ \A k \in 1..Len(transactions[a]) :
             transactions[a][k].id = <<hashOf[a], k>>
        /\ \A i, j \in 1..Len(transactions[a]) :
             i < j => /\ transactions[a][i].id # transactions[a][j].id
                      /\ transactions[a][i].id[2] < transactions[a][j].id[2]

\* Two accounts hold logs, one of them of two entries, and the latest call on
\* that one failed.
C8_Witness ==
    /\ IsProcessTransaction(call) /\ ~Succeeded(result)
    /\ call.account_id \in DOMAIN transactions
    /\ Len(transactions[call.account_id]) = 2
    /\ \E b \in DOMAIN transactions \ {call.account_id} : Len(transactions[b]) = 1

\* ------------------------------------------------------------------ C9

\* C9: across every step each account's log before the step is a prefix of
\* its log after it (no log for a missing account), an account that exists
\* goes on existing, and a successful process_transaction lengthens the
\* target's log by exactly one entry.
C9_AppendOnly ==
    [][ /\ \A a \in Accounts :
             /\ IsPrefix(GetLog(transactions, a), GetLog(transactions', a))
             /\ a \in DOMAIN transactions => a \in DOMAIN transactions'
             /\ a \in DOMAIN balances => a \in DOMAIN balances'
        /\ (IsProcessTransaction(call') /\ Succeeded(result'))
             => Len(GetLog(transactions', call'.account_id))
                = Len(GetLog(transactions, call'.account_id)) + 1 ]_vars

\* A third entry was appended to a log whose entries differ.
C9_Witness ==
    /\ IsProcessTransaction(call) /\ Succeeded(result)
    /\ Len(transactions[call.account_id]) = 3
    /\ transactions[call.account_id][1].amount # transactions[call.account_id][3].amount

\* ----------------------------------------------------------------- C10

\* C10: POST /transactions/{account_id} answers 201 on success, 404 for a
\* withdrawal on a missing account, 400 for insufficient funds and 400 for a
\* non-positive amount.
C10_StatusMapping ==
    (call.via = "http" /\ IsProcessTransaction(call))
    => result.status =
         CASE result.exc = NoException -> HTTP_201_CREATED
           [] result.exc = AccountDoesNotExist -> HTTP_404_NOT_FOUND
           [] result.exc = InsufficientFundsError -> HTTP_400_BAD_REQUEST
           [] result.exc = AmountNotPositive -> HTTP_400_BAD_REQUEST

\* ----------------------------------------------------------------- C11

\* C11: no account exists with an empty log: every log that list_transactions
\* can return holds at least one transaction, and what it returned is never
\* the empty sequence.
C11_NoEmptyAccount ==
    /\ \A a \in DOMAIN transactions : Len(transactions[a]) >= 1
    /\ (call.op = "list_transactions" /\ Succeeded(result)) => result.log # <<>>

\* list_transactions returned the log of the only account there is.
C11_Witness ==
    /\ call.op = "list_transactions" /\ Succeeded(result)
    /\ Len(result.log) >= 1
    /\ DOMAIN transactions # Accounts

\* ----------------------------------------------------------------- C12

\* C12: every stored transaction has an amount > 0 and the account_id of the
\* account whose log holds it.
C12_StoredTransactionsWellFormed ==
    \A a \in DOMAIN transactions :
        \A k \in 1..Len(transactions[a]) :
            /\ transactions[a][k].amount > 0
            /\ transactions[a][k].account_id = a

\* Both accounts hold transactions, and a zero amount has just been refused.
C12_Witness ==
    /\ \A a \in Accounts : a \in DOMAIN transactions /\ Len(transactions[a]) >= 1
    /\ IsProcessTransaction(call) /\ call.amount = 0 /\ ~Succeeded(result)

\* ----------------------------------------------------------------- C13

IsQuery(c) == c.op \in {"get_balance", "list_transactions"}

\* C13: get_balance and list_transactions, succeeding or failing, leave every
\* balance, every log and the set of accounts as they were; balances and logs
\* change only in a process_transaction step.
C13_QueriesReadOnly ==
    [][ /\ IsQuery(call') => (transactions' = transactions /\ balances' = balances)
        /\ (transactions' # transactions \/ balances' # balances)
             => IsProcessTransaction(call') ]_vars

\* A query on an unknown account failed and the account is still unknown,
\* while another account exists.
C13_Witness ==
    /\ IsQuery(call) /\ result.exc = AccountDoesNotExist
    /\ call.account_id \notin DOMAIN balances
    /\ call.account_id \notin DOMAIN transactions
    /\ DOMAIN balances # {}

\* ----------------------------------------------------------------- C14

\* C14: a Withdrawal on an existing account with 0 < amount <= balance
\* succeeds and lowers the balance by exactly the amount, the account still
\* existing afterwards; get_balance on an existing account returns its
\* balance, 0 included, rather than failing.
C14_CoveredWithdrawalSucceeds ==
    [][ /\ ( /\ IsProcessTransaction(call')
             /\ call'.type = WITHDRAWAL
             /\ call'.account_id \in DOMAIN balances
             /\ 0 < call'.amount
             /\ call'.amount <= balances[call'.account_id] )
           => ( /\ Succeeded(result')
                /\ call'.account_id \in DOMAIN balances'
                /\ balances'[call'.account_id]
                     = balances[call'.account_id] - call'.amount )
        /\ (call'.op = "get_balance" /\ call'.account_id \in DOMAIN balances)
           => ( /\ Succeeded(result')
                /\ result'.balance = balances[call'.account_id] ) ]_vars

\* The whole balance was withdrawn, and get_balance then returned 0.
C14_Witness ==
    /\ call.op = "get_balance" /\ Succeeded(result)
    /\ result.balance = 0
    /\ LET log == transactions[call.account_id]
       IN  /\ log[Len(log)].type = WITHDRAWAL
           /\ log[Len(log)].amount = 2

\* ----------------------------------------------------------------- C15

\* Thread t takes the write step of its balance update.
WritesBalance(t) == threads[t].pc = "write_balance" /\ threads'[t].pc = "done"

\* C15: nothing isolates the funds check from the balance update.  A
\* withdrawal whose update reads the very balance its check read never writes
\* a negative balance; the negative balance the witness reaches comes from
\* two interleaved withdrawals that both passed the check on the same balance.
C15_NegativeOnlyAfterStaleCheck ==
    [][ \A t \in Threads :
          ( /\ WritesBalance(t)
            /\ threads[t].txn.type = WITHDRAWAL
            /\ threads[t].bal = threads[t].seen )
          => balances'[threads[t].txn.account_id] >= 0 ]_vars

\* Two threads withdrew from the same account after checking the same
\* balance, both withdrawals are in the log, and the balance is negative.
C15_Witness ==
    \E t1, t2 \in Threads, a \in DOMAIN balances :
        /\ t1 # t2
        /\ threads[t1].pc = "done" /\ threads[t2].pc = "done"
        /\ threads[t1].txn.type = WITHDRAWAL /\ threads[t2].txn.type = WITHDRAWAL
        /\ threads[t1].txn.account_id = a /\ threads[t2].txn.account_id = a
        /\ threads[t1].seen = threads[t2].seen
        /\ threads[t1].seen >= threads[t1].txn.amount
        /\ threads[t2].seen >= threads[t2].txn.amount
        /\ a \in DOMAIN transactions
        /\ \E i, j \in 1..Len(transactions[a]) :
             /\ i # j
             /\ transactions[a][i] = threads[t1].txn
             /\ transactions[a][j] = threads[t2].txn
        /\ balances[a] < 0

\* ----------------------------------------------------------------- C16

\* Thread t takes the parse step / the append step.
Parses(t) == threads[t].pc \in {"idle", "done"} /\ threads'[t].pc = "validate"

Appends(t) == threads[t].pc = "append" /\ threads'[t].pc = "read_balance"

\* C16: the id is fixed when the request is parsed, from the log's length at
\* that moment, and it is that transaction, id unchanged, that is appended
\* later, whatever the log's length has become; the witness reaches a log
\* with two entries of the same id.
C16_IdFixedAtParse ==
    [][ \A t \in Threads :
          /\ Parses(t)
               => threads'[t].txn.id
                    = <<hashOf[threads'[t].txn.account_id],
                        Len(GetLog(transactions, threads'[t].txn.account_id)) + 1>>
          /\ (threads[t].pc \notin {"idle", "done"} /\ threads'[t].pc # "idle")
               => threads'[t].txn = threads[t].txn
          /\ Appends(t)
               => transactions'[threads[t].txn.account_id]
                    = Append(transactions[threads[t].txn.account_id], threads[t].txn) ]_vars

\* The calls of two threads on the same account are both in its log, at
\* different places, with the same id.
C16_Witness ==
    \E t1, t2 \in Threads, a \in DOMAIN transactions :
        /\ t1 # t2
        /\ threads[t1].pc = "done" /\ threads[t2].pc = "done"
        /\ threads[t1].txn.account_id = a /\ threads[t2].txn.account_id = a
        /\ \E i, j \in 1..Len(transactions[a]) :
             /\ i < j
             /\ transactions[a][i] = threads[t1].txn
             /\ transactions[a][j] = threads[t2].txn
             /\ transactions[a][i].id = transactions[a][j].id

\* ----------------------------------------------------------------- C17

\* C17: with calls executed one at a time, the balance map and the log map
\* have the same account ids, so get_balance and list_transactions agree on
\* whether an account exists.
C17_SameAccounts ==
    /\ DOMAIN balances = DOMAIN transactions
    /\ \A a \in Accounts :
         (get_balance(balances, a) = NoException)
         = (list_transactions(transactions, a) = NoException)

\* One account exists in both maps and the other in neither.
C17_Witness ==
    \E a, b \in Accounts :
        /\ a \in DOMAIN balances /\ a \in DOMAIN transactions
        /\ b \notin DOMAIN balances /\ b \notin DOMAIN transactions
        /\ Len(transactions[a]) >= 2

====
